---------------------------- MODULE Spec2Model ----------------------------
(***************************************************************************)
(* Model of the satellite pass finder, OrbitalCalculator.calculate_passes  *)
(* (src/modules/orbital.py).                                               *)
(*                                                                         *)
(* One call of calculate_passes is a scan: a loop over the instants        *)
(* start_time, start_time + 5 min, ... <= end_time.  Each iteration asks   *)
(* the propagator for a position (get_position_at_time, which answers      *)
(* None on a propagation failure), turns it into look angles               *)
(* (_calculate_look_angles) and feeds the elevation to a two-state         *)
(* machine (current_pass is None / current_pass is an open record).        *)
(*                                                                         *)
(* Units: every time is an integer number of minutes; elevations and       *)
(* azimuths are integer degrees.  hours_ahead is held in sixtieths of an   *)
(* hour, so timedelta(hours=hours_ahead) is hours_ahead minutes.  The      *)
(* answers of the propagator and of the look-angle geometry are inputs of  *)
(* the scan: each iteration draws one of them.  A point's 'distance_km'    *)
(* and 'satellite_position' are stored and never read by the scan; they    *)
(* are left out of the point records.                                      *)
(*                                                                         *)
(* Further parts, each with a specification of its own over the same       *)
(* variables: the geodetic helpers in rounded arithmetic (GeoSpec), the    *)
(* calculator object (CalcSpec), the command line (CliSpec), parse_tle     *)
(* (TleSpec), the Celestrak TLE request (CelestrakSpec), the country risk  *)
(* heuristic (RiskSpec), the Space-Track session (StSpec), the source      *)
(* manager (DataSpec) and the search de-duplication (DedupSpec).           *)
(***************************************************************************)
EXTENDS Integers, Sequences, FiniteSets, TLC

VARIABLES
    pc,             \* "call": at the top of the call; "scan": inside the
                    \* while loop; "done": the call returned; "raised_to_caller":
                    \* an exception left the call
    start_time,     \* datetime.utcnow() taken at the top of the call
    end_time,       \* start_time + timedelta(hours=hours_ahead), None before
    hours_ahead,    \* argument, in sixtieths of an hour
    min_elevation,  \* argument
    current_time,   \* loop variable
    current_pass,   \* None or the open pass record
    passes,         \* the list of closed pass records
    returned,       \* the value the call returned (meaningful when pc = "done")
    raised,         \* TRUE iff the call ended in the except branch
    samples         \* history: what each iteration of the loop evaluated

scanVars == <<pc, start_time, end_time, hours_ahead, min_elevation, current_time,
              current_pass, passes, returned, raised, samples>>

(* One call of a pure helper, _eci_to_geodetic or _calculate_look_angles *)
VARIABLES
    geo_pc,         \* "idle": no such call; "call": arguments bound; "return"
    geo_fn,         \* the helper called
    geo_in,         \* its arguments
    geo_out         \* its result

geoVars == <<geo_pc, geo_fn, geo_in, geo_out>>

(* An OrbitalCalculator object and the get_position_at_time calls made on it *)
VARIABLES
    calc_pc,        \* "idle"; "new": not constructed yet; "ready"; "failed"
    tle,            \* the two lines given to the constructor
    satellite,      \* self.satellite, None while there is no object
    ctor_exc,       \* the exception that left __init__, "none" if none
    sgp4_known,     \* the propagator's answers as far as they were asked for
    calls           \* history of the get_position_at_time calls

calcVars == <<calc_pc, tle, satellite, ctor_exc, sgp4_known, calls>>

(* One call of one of the other functions of the tool *)
VARIABLES
    call_pc,        \* "idle": no such call; "call": arguments bound; "return"
    call_fn,        \* the function called
    call_in,        \* its arguments and what its environment answers
    call_out        \* what it returned or raised, and what it sent out

callVars == <<call_pc, call_fn, call_in, call_out>>

(* A SatelliteDataRetriever object and its Space-Track session *)
VARIABLES
    st_pc,                      \* "idle": no such object; "ready"
    spacetrack_username,        \* self.spacetrack_username
    spacetrack_password,        \* self.spacetrack_password
    spacetrack_authenticated,   \* self._spacetrack_authenticated
    st_sent,                    \* history: the requests sent to Space-Track
    st_returned                 \* history: what each call returned

stVars == <<st_pc, spacetrack_username, spacetrack_password,
            spacetrack_authenticated, st_sent, st_returned>>

otherVars == <<geoVars, calcVars, callVars, stVars>>

vars == <<scanVars, otherVars>>

-----------------------------------------------------------------------------
(* Program constants *)

MIN_ELEVATION_DEGREES == 10

time_step == 5

(* Bounds of the model *)

MaxHorizon == 15

ElevSpan == 1

MaxStart == 1

StartTimes == 0..MaxStart

(* datetime.max, the last instant a datetime can hold, placed beyond every
   instant a scan over a horizon up to MaxHorizon touches *)
datetime_max == MaxStart + MaxHorizon + time_step

HoursAhead == ((0 - 1)..MaxHorizon) \cup {datetime_max + 1}

MinElevations == {MIN_ELEVATION_DEGREES, MIN_ELEVATION_DEGREES + 1}

Elevations == (MIN_ELEVATION_DEGREES - ElevSpan)..(MIN_ELEVATION_DEGREES + ElevSpan + 1)

Azimuths == {90, 270}

None == [none |-> TRUE]

GeoIdle ==
    /\ geo_pc = "idle"
    /\ geo_fn = "none"
    /\ geo_in = None
    /\ geo_out = None

CalcIdle ==
    /\ calc_pc = "idle"
    /\ tle = None
    /\ satellite = None
    /\ ctor_exc = "none"
    /\ sgp4_known = {}
    /\ calls = <<>>

CallIdle ==
    /\ call_pc = "idle"
    /\ call_fn = "none"
    /\ call_in = None
    /\ call_out = None

StIdle ==
    /\ st_pc = "idle"
    /\ spacetrack_username = None
    /\ spacetrack_password = None
    /\ spacetrack_authenticated = FALSE
    /\ st_sent = <<>>
    /\ st_returned = <<>>

OthersIdle == GeoIdle /\ CalcIdle /\ CallIdle /\ StIdle

Last(s) == s[Len(s)]

-----------------------------------------------------------------------------
(* The pieces of the loop body *)

timedelta_hours(h) == h

total_seconds(d) == d * 60

(* Faulty variants of the visibility test: a threshold one degree too low,
   and a strict comparison *)
VisibleOffByOne(elevation, min_el) == elevation >= min_el - 1

VisibleStrict(elevation, min_el) == elevation > min_el

(* Faulty variant: the threshold is ignored *)
VisibleAlways(elevation, min_el) == TRUE

Visible(elevation, min_el) == elevation >= min_el

NewPass(t, elevation, azimuth) ==
    [start_time            |-> t,
     max_elevation         |-> elevation,
     max_elevation_time    |-> t,
     max_elevation_azimuth |-> azimuth,
     points                |-> <<>>]

(* Faulty variants of the maximum update: never updated, and replaced on a
   tie as well *)
UpdateMaxNever(cp, t, elevation, azimuth) == cp

UpdateMaxOnTie(cp, t, elevation, azimuth) ==
    IF elevation >= cp.max_elevation
    THEN [cp EXCEPT !.max_elevation         = elevation,
                    !.max_elevation_time    = t,
                    !.max_elevation_azimuth = azimuth]
    ELSE cp

UpdateMax(cp, t, elevation, azimuth) ==
    IF elevation > cp.max_elevation
    THEN [cp EXCEPT !.max_elevation         = elevation,
                    !.max_elevation_time    = t,
                    !.max_elevation_azimuth = azimuth]
    ELSE cp

(* Faulty variant: every visible sample starts a new record *)
OpenAlways(cp, t, elevation, azimuth) == NewPass(t, elevation, azimuth)

OpenOrUpdate(cp, t, elevation, azimuth) ==
    IF cp = None
    THEN NewPass(t, elevation, azimuth)
    ELSE UpdateMax(cp, t, elevation, azimuth)

(* Faulty variant: the point is inserted at the front of the list *)
AddPointFirst(cp, t, elevation, azimuth) ==
    [cp EXCEPT !.points =
        <<[time |-> t, elevation |-> elevation, azimuth |-> azimuth]>> \o @]

AddPoint(cp, t, elevation, azimuth) ==
    [cp EXCEPT !.points =
        Append(@, [time |-> t, elevation |-> elevation, azimuth |-> azimuth])]

(* Faulty variant: the duration counts the sampling steps, both ends included *)
DurationInclusive(start, end) == total_seconds(end - start) \div 60 + time_step

(* Faulty variant: the duration left in seconds *)
DurationInSeconds(start, end) == total_seconds(end - start)

DurationMinutes(start, end) == total_seconds(end - start) \div 60

(* Faulty variant: the pass ends at the instant being sampled *)
ClosePassAtCurrentTime(cp) ==
    cp @@ [end_time         |-> current_time,
           duration_minutes |-> DurationMinutes(cp.start_time, current_time)]

ClosePass(cp) ==
    LET end == Last(cp.points).time
    IN  cp @@ [end_time         |-> end,
               duration_minutes |-> DurationMinutes(cp.start_time, end)]

(* Faulty variant: an open pass is dropped when the loop ends *)
FinalPassesDropOpen(ps, cp) == ps

FinalPasses(ps, cp) ==
    IF cp # None THEN Append(ps, ClosePass(cp)) ELSE ps

-----------------------------------------------------------------------------
(* The call *)

Init ==
    /\ pc = "call"
    /\ start_time \in StartTimes
    /\ hours_ahead \in HoursAhead
    /\ min_elevation \in MinElevations
    /\ end_time = None
    /\ current_time = start_time
    /\ current_pass = None
    /\ passes = <<>>
    /\ returned = <<>>
    /\ raised = FALSE
    /\ samples = <<>>
    /\ OthersIdle

(* Faulty variant: the loop stops one step early (< in place of <=) *)
LoopConditionStrict(t, end) == t < end

LoopCondition(t, end) == t <= end

InLoop == pc = "scan" /\ LoopCondition(current_time, end_time)

Params == <<start_time, end_time, hours_ahead, min_elevation>>

(* datetime + timedelta raises OverflowError beyond datetime.max *)
Overflows(t) == t > datetime_max

(* the statements before the try block: end_time is computed, and an
   overflow there leaves the call as an exception *)
Begin ==
    /\ pc = "call"
    /\ IF Overflows(start_time + timedelta_hours(hours_ahead))
       THEN /\ pc' = "raised_to_caller"
            /\ UNCHANGED end_time
       ELSE /\ pc' = "scan"
            /\ end_time' = start_time + timedelta_hours(hours_ahead)
    /\ UNCHANGED <<start_time, hours_ahead, min_elevation, current_time,
                   current_pass, passes, returned, raised, samples, otherVars>>

(* Faulty variant: a propagation failure ends the scan (break) *)
SamplePropagationFailsBreaks ==
    /\ InLoop
    /\ samples' = Append(samples, [time |-> current_time, kind |-> "none"])
    /\ current_time' = end_time + 1
    /\ UNCHANGED <<pc, current_pass, passes, returned, raised, Params, otherVars>>

(* Faulty variant: a propagation failure closes the open pass *)
SamplePropagationFailsCloses ==
    /\ InLoop
    /\ samples' = Append(samples, [time |-> current_time, kind |-> "none"])
    /\ passes' = FinalPasses(passes, current_pass)
    /\ current_pass' = None
    /\ current_time' = current_time + time_step
    /\ UNCHANGED <<pc, returned, raised, Params, otherVars>>

(* get_position_at_time returned None: the iteration only advances the clock *)
SamplePropagationFails ==
    /\ InLoop
    /\ samples' = Append(samples, [time |-> current_time, kind |-> "none"])
    /\ current_time' = current_time + time_step
    /\ UNCHANGED <<pc, current_pass, passes, returned, raised, Params, otherVars>>

(* elevation >= min_elevation: open a pass or update its maximum, add the point *)
SampleVisible ==
    /\ InLoop
    /\ \E elevation \in Elevations, azimuth \in Azimuths :
          /\ Visible(elevation, min_elevation)
          /\ samples' = Append(samples, [time |-> current_time, kind |-> "ok",
                                         elevation |-> elevation, azimuth |-> azimuth])
          /\ current_pass' = AddPoint(OpenOrUpdate(current_pass, current_time,
                                                   elevation, azimuth),
                                      current_time, elevation, azimuth)
    /\ current_time' = current_time + time_step
    /\ UNCHANGED <<pc, passes, returned, raised, Params, otherVars>>

(* Faulty variant: hysteresis, a single sample below the threshold does not
   close the pass *)
CloseOnDropNever(ps, cp) == [passes |-> ps, current_pass |-> cp]

(* Faulty variant: the closed pass is put at the front of the list *)
CloseOnDropPrepends(ps, cp) ==
    IF cp # None
    THEN [passes |-> <<ClosePass(cp)>> \o ps, current_pass |-> None]
    ELSE [passes |-> ps, current_pass |-> cp]

(* elevation < min_elevation: an open pass is closed and appended, and no
   pass is open afterwards; the result is the pair (passes, current_pass) *)
CloseOnDrop(ps, cp) ==
    IF cp # None
    THEN [passes |-> Append(ps, ClosePass(cp)), current_pass |-> None]
    ELSE [passes |-> ps, current_pass |-> cp]

SampleNotVisible ==
    /\ InLoop
    /\ \E elevation \in Elevations, azimuth \in Azimuths :
          /\ ~Visible(elevation, min_elevation)
          /\ samples' = Append(samples, [time |-> current_time, kind |-> "ok",
                                         elevation |-> elevation, azimuth |-> azimuth])
    /\ passes' = CloseOnDrop(passes, current_pass).passes
    /\ current_pass' = CloseOnDrop(passes, current_pass).current_pass
    /\ current_time' = current_time + time_step
    /\ UNCHANGED <<pc, returned, raised, Params, otherVars>>

(* Faulty variant: the except branch returns the passes completed so far *)
SampleRaisesKeepsPasses ==
    /\ InLoop
    /\ samples' = Append(samples, [time |-> current_time, kind |-> "raise"])
    /\ pc' = "done"
    /\ returned' = passes
    /\ raised' = TRUE
    /\ UNCHANGED <<current_time, current_pass, passes, Params, otherVars>>

(* an exception outside get_position_at_time: except branch, return [] *)
SampleRaises ==
    /\ InLoop
    /\ samples' = Append(samples, [time |-> current_time, kind |-> "raise"])
    /\ pc' = "done"
    /\ returned' = <<>>
    /\ raised' = TRUE
    /\ UNCHANGED <<current_time, current_pass, passes, Params, otherVars>>

(* the loop condition fails: force-close the open pass and return passes *)
LoopExit ==
    /\ pc = "scan"
    /\ ~LoopCondition(current_time, end_time)
    /\ passes' = FinalPasses(passes, current_pass)
    /\ returned' = passes'
    /\ pc' = "done"
    /\ UNCHANGED <<current_time, current_pass, raised, samples, Params, otherVars>>

Next ==
    \/ Begin
    \/ SamplePropagationFails
    \/ SampleVisible
    \/ SampleNotVisible
    \/ SampleRaises
    \/ LoopExit

Spec == Init /\ [][Next]_vars


-----------------------------------------------------------------------------
(* The elevation series the scan saw, read off the history *)

IsOk(s) == s.kind = "ok"

OkSamples == SelectSeq(samples, IsOk)

PointOf(s) == [time |-> s.time, elevation |-> s.elevation, azimuth |-> s.azimuth]

SeenVisible(s) == s.elevation >= min_elevation

PointSet(r) == {r.points[j] : j \in DOMAIN r.points}

ReturnedNormally == pc = "done" /\ ~raised

-----------------------------------------------------------------------------
(* C1: every point of every returned pass record has an elevation at or
   above the min_elevation of the scan. *)
C1_PointsAtOrAboveThreshold ==
    \A i \in DOMAIN returned :
        \A j \in DOMAIN returned[i].points :
            returned[i].points[j].elevation >= min_elevation

C1_Witness ==
    /\ ReturnedNormally
    /\ \E i \in DOMAIN returned :
          /\ Len(returned[i].points) >= 2
          /\ \E j \in DOMAIN returned[i].points :
                returned[i].points[j].elevation = min_elevation
    /\ \E k \in DOMAIN OkSamples : ~SeenVisible(OkSamples[k])

(* C2: max_elevation of a returned record is the maximum of the elevations
   of its points. *)
C2_MaxElevationIsMaximum ==
    \A i \in DOMAIN returned :
        /\ \A j \in DOMAIN returned[i].points :
              returned[i].max_elevation >= returned[i].points[j].elevation
        /\ \E j \in DOMAIN returned[i].points :
              returned[i].max_elevation = returned[i].points[j].elevation

C2_Witness ==
    /\ ReturnedNormally
    /\ \E i \in DOMAIN returned :
          /\ Len(returned[i].points) >= 3
          /\ returned[i].points[1].elevation < returned[i].points[2].elevation
          /\ returned[i].points[3].elevation < returned[i].points[2].elevation
          /\ returned[i].max_elevation = returned[i].points[2].elevation

(* C3: (max_elevation_time, max_elevation, max_elevation_azimuth) of a
   returned record is the (time, elevation, azimuth) of one of its points,
   and that point is the earliest one attaining the maximum elevation. *)
C3_MaxIsEarliestMaximalPoint ==
    \A i \in DOMAIN returned :
        LET r == returned[i] IN
        \E j \in DOMAIN r.points :
            /\ r.points[j] = [time      |-> r.max_elevation_time,
                              elevation |-> r.max_elevation,
                              azimuth   |-> r.max_elevation_azimuth]
            /\ \A k \in DOMAIN r.points :
                  /\ r.points[k].elevation <= r.max_elevation
                  /\ k < j => r.points[k].elevation < r.max_elevation

C3_Witness ==
    /\ ReturnedNormally
    /\ \E i \in DOMAIN returned :
          LET r == returned[i] IN
          /\ Len(r.points) >= 3
          /\ r.points[1].elevation < r.points[2].elevation
          /\ r.points[3].elevation = r.points[2].elevation
          /\ r.points[3].azimuth # r.points[2].azimuth
          /\ r.max_elevation_time = r.points[2].time
          /\ r.max_elevation_azimuth = r.points[2].azimuth

-----------------------------------------------------------------------------
(* Maximal runs of visible samples in the elevation series *)

RunStarts ==
    {i \in DOMAIN OkSamples :
        /\ SeenVisible(OkSamples[i])
        /\ (i = 1 \/ ~SeenVisible(OkSamples[i - 1]))}

NumRuns == Cardinality(RunStarts)

(* index in OkSamples of the first sample of the n-th run *)
RunStart(n) ==
    CHOOSE i \in RunStarts : Cardinality({j \in RunStarts : j <= i}) = n

OpenCount == IF current_pass # None THEN 1 ELSE 0

(* C4: every returned record has end_time >= start_time and a
   duration_minutes equal to end_time - start_time in minutes (so it is not
   negative), however the record was closed. *)
C4_EndAfterStartAndDuration ==
    \A i \in DOMAIN returned :
        /\ returned[i].end_time >= returned[i].start_time
        /\ returned[i].duration_minutes = returned[i].end_time - returned[i].start_time
        /\ returned[i].duration_minutes >= 0

C4_Witness ==
    /\ ReturnedNormally
    /\ Len(returned) >= 2
    /\ returned[1].duration_minutes > 0
    /\ IsOk(Last(samples))
    /\ SeenVisible(Last(samples))
    /\ Last(returned).end_time = Last(samples).time

(* C5: when the last sample of the elevation series is at or above
   min_elevation (a pass is open when the loop ends), the call returns that
   pass as its last record, ending at the time of that last visible sample. *)
C5_OpenPassEmittedAtHorizon ==
    (/\ ReturnedNormally
     /\ OkSamples # <<>>
     /\ SeenVisible(Last(OkSamples)))
    => /\ returned # <<>>
       /\ Last(returned).end_time = Last(OkSamples).time
       /\ Last(Last(returned).points) = PointOf(Last(OkSamples))

C5_Witness ==
    /\ ReturnedNormally
    /\ hours_ahead > 0
    /\ IsOk(Last(samples))
    /\ SeenVisible(Last(samples))
    /\ Last(samples).time = end_time
    /\ Last(returned).end_time = end_time
    /\ Len(Last(returned).points) >= 2

(* C6: a propagation failure skips the sample and the scan goes on: the
   instants evaluated are start_time, start_time + 5, ... without a gap,
   after the whole loop none of them at or before end_time is missing, and
   every visible sample, also one after a failed instant, is a point of a
   returned record. *)
C6_FailureDoesNotEndScan ==
    /\ \A i \in DOMAIN samples : samples[i].time = start_time + (i - 1) * time_step
    /\ pc = "scan" => current_time = start_time + Len(samples) * time_step
    /\ ReturnedNormally =>
          /\ start_time + Len(samples) * time_step > end_time
          /\ \A i \in DOMAIN samples :
                (IsOk(samples[i]) /\ SeenVisible(samples[i]))
                => \E n \in DOMAIN returned :
                      PointOf(samples[i]) \in PointSet(returned[n])

C6_Witness ==
    /\ ReturnedNormally
    /\ \E i \in DOMAIN samples :
          /\ samples[i].kind = "none"
          /\ i + 1 \in DOMAIN samples
          /\ IsOk(samples[i + 1]) /\ SeenVisible(samples[i + 1])
          /\ \E n \in DOMAIN returned : returned[n].start_time = samples[i + 1].time
    /\ Last(samples).time = end_time

(* C7: one record per maximal run of visible samples: as many records as
   runs, the n-th record starting at the first sample of the n-th run, and a
   record that has taken one sample has that sample as its maximum. *)
C7_OneRecordPerRun ==
    /\ pc = "scan" => Len(passes) + OpenCount = NumRuns
    /\ ReturnedNormally =>
          /\ Len(returned) = NumRuns
          /\ \A n \in DOMAIN returned :
                /\ returned[n].start_time = OkSamples[RunStart(n)].time
                /\ returned[n].points[1] = PointOf(OkSamples[RunStart(n)])
    /\ (current_pass # None /\ Len(current_pass.points) = 1) =>
          /\ current_pass.max_elevation = current_pass.points[1].elevation
          /\ current_pass.max_elevation_time = current_pass.start_time
          /\ current_pass.start_time = current_pass.points[1].time
          /\ current_pass.max_elevation_azimuth = current_pass.points[1].azimuth

C7_Witness ==
    /\ ReturnedNormally
    /\ NumRuns = 2
    /\ Len(returned) = 2
    /\ returned[1].start_time > start_time
    /\ returned[2].start_time > returned[1].end_time + time_step

(* C8: a sample below min_elevation closes the open pass at once: the
   record appended last ends at the last visible sample, before the instant
   of the sample that closed it, and no pass is open as long as the latest
   sample of the series is below the threshold. *)
C8_DropClosesPass ==
    LET ok == OkSamples
        n  == Len(OkSamples)
    IN  /\ (n >= 1 /\ ~SeenVisible(ok[n])) => current_pass = None
        /\ (n >= 2 /\ ~SeenVisible(ok[n]) /\ SeenVisible(ok[n - 1])) =>
              /\ passes # <<>>
              /\ Last(passes).end_time = ok[n - 1].time
              /\ Last(passes).end_time < ok[n].time
              /\ Last(Last(passes).points) = PointOf(ok[n - 1])

C8_Witness ==
    /\ pc = "scan"
    /\ Len(OkSamples) >= 3
    /\ IsOk(Last(samples))
    /\ ~SeenVisible(Last(samples))
    /\ SeenVisible(OkSamples[Len(OkSamples) - 1])
    /\ current_pass = None
    /\ Last(passes).end_time = Last(samples).time - time_step
    /\ Last(passes).duration_minutes > 0

(* C9: the visibility test is inclusive: a sample exactly at min_elevation
   opens a pass or keeps the open one, and becomes its latest point; a pass
   is closed exactly when the latest sample is strictly below min_elevation. *)
C9_ThresholdInclusive ==
    LET ok == OkSamples
        n  == Len(OkSamples)
    IN  (n >= 1 /\ pc = "scan") =>
           /\ ok[n].elevation = min_elevation =>
                 /\ current_pass # None
                 /\ Last(current_pass.points) = PointOf(ok[n])
           /\ (current_pass = None) <=> (ok[n].elevation < min_elevation)

C9_Witness ==
    /\ pc = "scan"
    /\ current_pass # None
    /\ Len(current_pass.points) = 3
    /\ current_pass.points[1].elevation = min_elevation
    /\ current_pass.points[2].elevation > min_elevation
    /\ current_pass.points[3].elevation = min_elevation

(* C10: runs of visible samples separated by a sample below the threshold
   are never merged: no record holds points from both sides of such a
   sample, and the visible samples on its two sides are returned in two
   different records. *)
C10_RunsNeverMerged ==
    LET ok == OkSamples
        Straddles(r, t) == \E p, q \in PointSet(r) : p.time < t /\ t < q.time
    IN  /\ \A j \in DOMAIN ok :
              ~SeenVisible(ok[j]) =>
                 /\ \A n \in DOMAIN passes : ~Straddles(passes[n], ok[j].time)
                 /\ current_pass # None => ~Straddles(current_pass, ok[j].time)
        /\ ReturnedNormally =>
              \A i, j, k \in DOMAIN ok :
                 (/\ i < j /\ j < k
                  /\ SeenVisible(ok[i]) /\ ~SeenVisible(ok[j]) /\ SeenVisible(ok[k]))
                 => \E a, b \in DOMAIN returned :
                       /\ a < b
                       /\ PointOf(ok[i]) \in PointSet(returned[a])
                       /\ PointOf(ok[k]) \in PointSet(returned[b])

C10_Witness ==
    /\ ReturnedNormally
    /\ Len(returned) = 2
    /\ \E j \in DOMAIN samples :
          /\ j - 1 \in DOMAIN samples /\ j + 1 \in DOMAIN samples
          /\ IsOk(samples[j - 1]) /\ IsOk(samples[j]) /\ IsOk(samples[j + 1])
          /\ SeenVisible(samples[j - 1])
          /\ ~SeenVisible(samples[j])
          /\ SeenVisible(samples[j + 1])
          /\ returned[1].end_time = samples[j - 1].time
          /\ returned[2].start_time = samples[j + 1].time

-----------------------------------------------------------------------------
(* C11: the returned list is in chronological order without overlap: a
   record ends before the next one starts, and every record starts and ends
   within [start_time, end_time] of the scan. *)
C11_ChronologicalNoOverlap ==
    /\ \A i \in DOMAIN returned :
          /\ start_time <= returned[i].start_time
          /\ returned[i].start_time <= returned[i].end_time
          /\ returned[i].end_time <= end_time
    /\ \A i, j \in DOMAIN returned :
          i < j => returned[i].end_time < returned[j].start_time

C11_Witness ==
    /\ ReturnedNormally
    /\ Len(returned) = 2
    /\ returned[1].start_time = start_time
    /\ returned[1].end_time > returned[1].start_time
    /\ returned[2].end_time = end_time

(* C12: when no sample of the scan is at or above min_elevation, the call
   returns the empty list (it has no other way to end: the call never
   raises). *)
C12_EmptyWhenNeverVisible ==
    (\A i \in DOMAIN OkSamples : ~SeenVisible(OkSamples[i])) =>
        /\ passes = <<>>
        /\ current_pass = None
        /\ pc = "done" => returned = <<>>

C12_Witness ==
    /\ ReturnedNormally
    /\ returned = <<>>
    /\ Len(OkSamples) >= 3
    /\ \A i \in DOMAIN OkSamples : ~SeenVisible(OkSamples[i])
    /\ \E i \in DOMAIN OkSamples : OkSamples[i].elevation = min_elevation - 1

(* C13: an invalid configuration (min_elevation outside [-90, 90],
   hours_ahead <= 0) is rejected before any propagation and is never
   answered with a normal list of passes. *)
InvalidConfiguration ==
    \/ min_elevation < 0 - 90
    \/ min_elevation > 90
    \/ hours_ahead <= 0

C13_InvalidConfigurationRejected ==
    InvalidConfiguration => (samples = <<>> /\ ~ReturnedNormally)

(* C14: the scan ends after finitely many iterations and evaluates exactly
   the instants start_time + 5k that are <= end_time, each once and in
   increasing order; every time stored in a record is one of them. *)
GridInstant(t) ==
    /\ t >= start_time
    /\ t <= end_time
    /\ (t - start_time) % 5 = 0

C14_ScanInstants ==
    /\ \A i \in DOMAIN samples :
          /\ samples[i].time = start_time + 5 * (i - 1)
          /\ samples[i].time <= end_time
    /\ pc = "scan" => ENABLED Next
    /\ ReturnedNormally =>
          \A k \in 0..(hours_ahead + 1) :
             (start_time + 5 * k <= end_time) => (k + 1) \in DOMAIN samples
    /\ \A i \in DOMAIN passes :
          /\ GridInstant(passes[i].start_time)
          /\ GridInstant(passes[i].end_time)
          /\ GridInstant(passes[i].max_elevation_time)
          /\ \A j \in DOMAIN passes[i].points : GridInstant(passes[i].points[j].time)

C14_Witness ==
    /\ ReturnedNormally
    /\ hours_ahead = 3 * 5
    /\ Len(samples) = 4
    /\ Last(samples).time = end_time
    /\ returned # <<>>

(* C15 as claimed: the points of a returned record are exactly one 5-minute
   step apart from start_time to end_time, so that
   len(points) = duration_minutes / 5 + 1. *)
C15_OnePointPerStep ==
    \A i \in DOMAIN returned :
        LET r == returned[i] IN
        /\ r.points[1].time = r.start_time
        /\ Last(r.points).time = r.end_time
        /\ \A j \in DOMAIN r.points :
              j > 1 => r.points[j].time = r.points[j - 1].time + 5
        /\ Len(r.points) = r.duration_minutes \div 5 + 1

(* the instants of the scan between the start and the end of record r at
   which propagation failed *)
FailedWithin(r) ==
    {k \in DOMAIN samples :
        /\ samples[k].kind = "none"
        /\ r.start_time < samples[k].time
        /\ samples[k].time < r.end_time}

(* C15 as amended: the points of a returned record are in strictly
   increasing time order from start_time to end_time, a whole number of
   5-minute steps apart, one for every sampling step in between at which
   propagation succeeded: len(points) = duration_minutes / 5 + 1 minus the
   number of failed instants in between. *)
C15_OnePointPerPropagatedStep ==
    \A i \in DOMAIN returned :
        LET r == returned[i] IN
        /\ r.points[1].time = r.start_time
        /\ Last(r.points).time = r.end_time
        /\ \A j \in DOMAIN r.points :
              j > 1 => /\ r.points[j].time > r.points[j - 1].time
                       /\ (r.points[j].time - r.points[j - 1].time) % 5 = 0
        /\ \A k \in DOMAIN samples :
              (r.start_time <= samples[k].time /\ samples[k].time <= r.end_time)
              => /\ IsOk(samples[k]) <=> \E q \in PointSet(r) : q.time = samples[k].time
                 /\ IsOk(samples[k]) => PointOf(samples[k]) \in PointSet(r)
        /\ Len(r.points) = r.duration_minutes \div 5 + 1 - Cardinality(FailedWithin(r))

C15_Witness ==
    /\ ReturnedNormally
    /\ \E i \in DOMAIN returned :
          /\ Len(returned[i].points) = 3
          /\ returned[i].duration_minutes = 3 * 5
          /\ Cardinality(FailedWithin(returned[i])) = 1

-----------------------------------------------------------------------------
(***************************************************************************)
(* Floating point.  The angles of _eci_to_geodetic and                     *)
(* _calculate_look_angles are Python floats: binary floating point,        *)
(* every arithmetic result rounded to the nearest representable value,     *)
(* ties to even.  The model keeps that rounding with a short significand:  *)
(* a value is an integer number of units of 2^-FracBits (degrees or        *)
(* hours) and has at most MantissaBits significant bits (53 in Python).    *)
(***************************************************************************)

MantissaBits == 8

FracBits == 4

MaxOffset == 40

RECURSIVE Pow2(_)
Pow2(n) == IF n = 0 THEN 1 ELSE 2 * Pow2(n - 1)

Unit == Pow2(FracBits)

Deg(d) == d * Unit

Abs(x) == IF x < 0 THEN 0 - x ELSE x

(* the spacing of the representable values around magnitude n *)
RECURSIVE Ulp(_)
Ulp(n) == IF n < Pow2(MantissaBits) THEN 1 ELSE 2 * Ulp(n \div 2)

(* n / d (d > 0) rounded to the nearest representable value, ties to even *)
RoundRatio(n, d) ==
    LET m  == Abs(n)
        u  == Ulp(m \div d)
        q  == m \div (d * u)
        r  == m % (d * u)
        up == (2 * r > d * u) \/ (2 * r = d * u /\ q % 2 = 1)
        v  == (IF up THEN q + 1 ELSE q) * u
    IN  IF n < 0 THEN 0 - v ELSE v

Round(x) == RoundRatio(x, 1)

Floats(lo, hi) == {x \in lo..hi : Round(x) = x}

fadd(a, b) == Round(a + b)

fsub(a, b) == Round(a - b)

fmul(a, b) == RoundRatio(a * b, Unit)

(* Python's float %: fmod, then the divisor added when the signs differ *)
PyMod(x, m) ==
    LET r == IF x >= 0 THEN x % m ELSE 0 - ((0 - x) % m)
    IN  IF r # 0 /\ r < 0 THEN fadd(r, m) ELSE r

-----------------------------------------------------------------------------
(* _eci_to_geodetic: longitude adjusted for the rotation of the Earth *)

(* 15.04107 degrees per sidereal hour, as a float *)
earth_rotation_rate == RoundRatio(1504107 * Unit, 100000)

(* datetime(2000, 1, 1, 12, 0, 0); instants count from 2000-01-01T00:00 *)
j2000 == 12 * Unit

hours_since_j2000(dt) == RoundRatio(total_seconds(dt - j2000), 60)

(* Faulty variant: only the upper edge is corrected *)
NormalizeLongitudeUpperOnly(lon_adjusted) ==
    IF lon_adjusted > Deg(180) THEN fsub(lon_adjusted, Deg(360)) ELSE lon_adjusted

NormalizeLongitude(lon_adjusted) ==
    IF lon_adjusted > Deg(180) THEN fsub(lon_adjusted, Deg(360))
    ELSE IF lon_adjusted < 0 - Deg(180) THEN fadd(lon_adjusted, Deg(360))
    ELSE lon_adjusted

(* lat = degrees(asin(z / r)) and lon = degrees(atan2(y, x)) are taken as
   given; the altitude r - EARTH_RADIUS_KM does not enter the angles *)
EciToGeodetic(lat, lon, dt) ==
    LET rotation == PyMod(fmul(earth_rotation_rate, hours_since_j2000(dt)), Deg(360))
    IN  [latitude  |-> lat,
         longitude |-> NormalizeLongitude(fsub(lon, rotation)),
         rotation  |-> rotation]

(* _calculate_look_angles: azimuth = degrees(atan2(east, north)), shifted
   by 360 when negative *)
NormalizeAzimuth(azimuth) ==
    IF azimuth < 0 THEN fadd(azimuth, Deg(360)) ELSE azimuth

CalculateLookAngles(elevation, azimuth) ==
    [elevation |-> elevation, azimuth |-> NormalizeAzimuth(azimuth)]

-----------------------------------------------------------------------------
(* A call of one of the two helpers on arbitrary arguments *)

ScanIdle ==
    /\ pc = "idle"
    /\ start_time = 0
    /\ end_time = 0
    /\ hours_ahead = 0
    /\ min_elevation = MIN_ELEVATION_DEGREES
    /\ current_time = 0
    /\ current_pass = None
    /\ passes = <<>>
    /\ returned = <<>>
    /\ raised = FALSE
    /\ samples = <<>>

Latitudes == {Deg(0 - 90), Deg(90)}

LookElevations == {Deg(0 - 90), Deg(MIN_ELEVATION_DEGREES), Deg(90)}

Angles == Floats(Deg(0 - 180), Deg(180))

Instants == (j2000 - MaxOffset)..(j2000 + MaxOffset)

GeoInit ==
    /\ ScanIdle
    /\ CalcIdle
    /\ CallIdle
    /\ StIdle
    /\ geo_pc = "call"
    /\ geo_out = None
    /\ \/ /\ geo_fn = "_eci_to_geodetic"
          /\ geo_in \in [lat : Latitudes, lon : Angles, dt : Instants]
       \/ /\ geo_fn = "_calculate_look_angles"
          /\ geo_in \in [elevation : LookElevations, azimuth : Angles]

EciToGeodeticCall ==
    /\ geo_pc = "call"
    /\ geo_fn = "_eci_to_geodetic"
    /\ geo_out' = EciToGeodetic(geo_in.lat, geo_in.lon, geo_in.dt)
    /\ geo_pc' = "return"
    /\ UNCHANGED <<geo_fn, geo_in, scanVars, calcVars, callVars, stVars>>

CalculateLookAnglesCall ==
    /\ geo_pc = "call"
    /\ geo_fn = "_calculate_look_angles"
    /\ geo_out' = CalculateLookAngles(geo_in.elevation, geo_in.azimuth)
    /\ geo_pc' = "return"
    /\ UNCHANGED <<geo_fn, geo_in, scanVars, calcVars, callVars, stVars>>

GeoNext ==
    \/ EciToGeodeticCall
    \/ CalculateLookAnglesCall

GeoSpec == GeoInit /\ [][GeoNext]_vars

-----------------------------------------------------------------------------
(* C16: whatever the instant (before or after J2000) and the raw longitude
   in [-180, 180], the longitude returned by _eci_to_geodetic lies in
   [-180, 180] and the latitude in [-90, 90]. *)
C16_GeodeticBounds ==
    (geo_pc = "return" /\ geo_fn = "_eci_to_geodetic") =>
        /\ 0 - Deg(180) <= geo_out.longitude
        /\ geo_out.longitude <= Deg(180)
        /\ 0 - Deg(90) <= geo_out.latitude
        /\ geo_out.latitude <= Deg(90)

(* the extreme case: an instant before J2000 whose rotation term rounds up
   to 360 and a raw longitude of -180, so that lon_adjusted is -540 and the
   single +360 correction lands on the edge -180 *)
C16_Witness ==
    /\ geo_pc = "return"
    /\ geo_fn = "_eci_to_geodetic"
    /\ geo_in.dt < j2000
    /\ geo_out.rotation = Deg(360)
    /\ geo_in.lon = 0 - Deg(180)
    /\ geo_out.longitude = 0 - Deg(180)

(* C17: the azimuth returned by _calculate_look_angles lies in [0, 360):
   the value 360 is never produced. *)
C17_AzimuthHalfOpen ==
    (geo_pc = "return" /\ geo_fn = "_calculate_look_angles") =>
        /\ 0 <= geo_out.azimuth
        /\ geo_out.azimuth < Deg(360)

-----------------------------------------------------------------------------
(***************************************************************************)
(* The OrbitalCalculator object: __init__ and get_position_at_time.        *)
(* The sgp4 library is outside the repository.  Satrec.twoline2rv either   *)
(* raises on a malformed line or returns a record carrying an error code;  *)
(* Satrec.sgp4 is a function of the element set and the Julian date, of    *)
(* which the model knows only the values asked for so far (sgp4_known).    *)
(***************************************************************************)

EARTH_RADIUS_KM == 6371

MaxCalls == 3

TLEs ==
    {[kind |-> "valid",     satnum |-> 25544, error |-> 0],
     [kind |-> "malformed", satnum |-> 0,     error |-> 0],
     [kind |-> "bad",       satnum |-> 25544, error |-> 1]}

(* Satrec.twoline2rv *)
Twoline2rv(t) ==
    IF t.kind = "malformed"
    THEN [raised |-> TRUE, exc |-> "ValueError"]
    ELSE [raised |-> FALSE, satrec |-> [satnum |-> t.satnum, error |-> t.error]]

(* Faulty variant: a record with an error code is accepted *)
ConstructorIgnoresError(t) ==
    LET parsed == Twoline2rv(t)
    IN  IF parsed.raised
        THEN [raised |-> TRUE, exc |-> parsed.exc]
        ELSE [raised |-> FALSE, satellite |-> parsed.satrec]

(* __init__: what leaves the constructor *)
Constructor(t) ==
    LET parsed == Twoline2rv(t)
    IN  IF parsed.raised
        THEN [raised |-> TRUE, exc |-> parsed.exc]
        ELSE IF parsed.satrec.error # 0
             THEN [raised |-> TRUE, exc |-> "ValueError"]
             ELSE [raised |-> FALSE, satellite |-> parsed.satrec]

(* jday: the Julian date as whole days and fraction of a day *)
jday(dt) == <<dt \div (24 * Unit), dt % (24 * Unit)>>

(* the answers (error, position) Satrec.sgp4 can give; the position is kept
   as its radius r, degrees(asin(z / r)) and degrees(atan2(y, x)) *)
Sgp4Answers ==
    {[error |-> 0, r |-> EARTH_RADIUS_KM + 400, lat |-> Deg(0), lon |-> Deg(0 - 180)],
     [error |-> 0, r |-> EARTH_RADIUS_KM + 400, lat |-> Deg(90), lon |-> Deg(90)],
     [error |-> 0, r |-> 0, lat |-> Deg(0), lon |-> Deg(0)],
     [error |-> 6, r |-> 0, lat |-> Deg(0), lon |-> Deg(0)]}

(* what Satrec.sgp4 may answer for this element set at this date *)
Sgp4(sat, jd) ==
    IF \E k \in sgp4_known : k.sat = sat /\ k.jd = jd
    THEN {k.answer : k \in {x \in sgp4_known : x.sat = sat /\ x.jd = jd}}
    ELSE Sgp4Answers

(* the body of the try block: a returned value or an exception *)
GetPositionBody(answer, dt) ==
    IF answer.error # 0
    THEN [raised |-> FALSE, value |-> None]
    ELSE IF answer.r = 0
         THEN [raised |-> TRUE, value |-> "ZeroDivisionError"]
         ELSE LET geo == EciToGeodetic(answer.lat, answer.lon, dt)
              IN  [raised |-> FALSE,
                   value  |-> [timestamp   |-> dt,
                               latitude    |-> geo.latitude,
                               longitude   |-> geo.longitude,
                               altitude_km |-> answer.r - EARTH_RADIUS_KM,
                               error       |-> answer.error]]

(* Faulty variant: no except clause *)
GetPositionUnguarded(answer, dt) == GetPositionBody(answer, dt)

(* get_position_at_time: an exception in the body becomes None *)
GetPositionAtTime(answer, dt) ==
    LET body == GetPositionBody(answer, dt)
    IN  IF body.raised THEN [raised |-> FALSE, value |-> None] ELSE body

CalcInstants == {j2000 - MaxOffset, j2000, j2000 + MaxOffset}

Callers == {"caller", "calculate_passes"}

CalcInit ==
    /\ ScanIdle
    /\ GeoIdle
    /\ CallIdle
    /\ StIdle
    /\ calc_pc = "new"
    /\ tle \in TLEs
    /\ satellite = None
    /\ ctor_exc = "none"
    /\ sgp4_known = {}
    /\ calls = <<>>

(* OrbitalCalculator(tle_line1, tle_line2) *)
Construct ==
    /\ calc_pc = "new"
    /\ LET made == Constructor(tle)
       IN  IF made.raised
           THEN /\ calc_pc' = "failed"
                /\ ctor_exc' = made.exc
                /\ satellite' = None
           ELSE /\ calc_pc' = "ready"
                /\ ctor_exc' = "none"
                /\ satellite' = made.satellite
    /\ UNCHANGED <<tle, sgp4_known, calls, scanVars, geoVars, callVars, stVars>>

(* Faulty variant: the call leaves the instant in the satellite record *)
GetPositionAtTimeCallKeepsState ==
    /\ calc_pc = "ready"
    /\ Len(calls) < MaxCalls
    /\ \E dt \in CalcInstants, by \in Callers :
          \E answer \in Sgp4(satellite, jday(dt)) :
             /\ sgp4_known' = sgp4_known \cup
                   {[sat |-> satellite, jd |-> jday(dt), answer |-> answer]}
             /\ calls' = Append(calls,
                   [dt |-> dt, by |-> by, sgp4 |-> answer,
                    out |-> GetPositionAtTime(answer, dt)])
             /\ satellite' = [satellite EXCEPT !.error = dt]
    /\ UNCHANGED <<calc_pc, tle, ctor_exc, scanVars, geoVars, callVars, stVars>>

(* calc.get_position_at_time(dt), called directly or by calculate_passes *)
GetPositionAtTimeCall ==
    /\ calc_pc = "ready"
    /\ Len(calls) < MaxCalls
    /\ \E dt \in CalcInstants, by \in Callers :
          \E answer \in Sgp4(satellite, jday(dt)) :
             /\ sgp4_known' = sgp4_known \cup
                   {[sat |-> satellite, jd |-> jday(dt), answer |-> answer]}
             /\ calls' = Append(calls,
                   [dt |-> dt, by |-> by, sgp4 |-> answer,
                    out |-> GetPositionAtTime(answer, dt)])
    /\ UNCHANGED <<calc_pc, tle, satellite, ctor_exc, scanVars, geoVars, callVars, stVars>>

CalcNext ==
    \/ Construct
    \/ GetPositionAtTimeCall

CalcSpec == CalcInit /\ [][CalcNext]_vars

-----------------------------------------------------------------------------
(* the calls made with the same instant as call i, before or after it *)
SameInstant(i) == {j \in 1..Len(calls) : calls[j].dt = calls[i].dt}

(* C18: two get_position_at_time calls on the same calculator with the same
   instant return identical results, whichever other calls, made directly or
   by calculate_passes, lie in between; and the calls leave the satellite
   element set as the constructor parsed it. *)
C18_PropagationDeterministic ==
    calc_pc = "ready" =>
        /\ satellite = Twoline2rv(tle).satrec
        /\ \A i \in 1..Len(calls) : \A j \in SameInstant(i) :
              calls[i].out = calls[j].out

(* two equal calls for a position, with a call for another instant made by
   calculate_passes in between *)
C18_Witness ==
    /\ calc_pc = "ready"
    /\ Len(calls) = 3
    /\ calls[1].dt = calls[3].dt
    /\ calls[2].dt # calls[1].dt
    /\ calls[2].by = "calculate_passes"
    /\ calls[1].out.value # None
    /\ calls[2].out # calls[1].out
    /\ calls[3].out = calls[1].out

FailsToParse(t) == Twoline2rv(t).raised \/ Twoline2rv(t).satrec.error # 0

(* C19: once the constructor has run on TLE lines that fail to parse (the
   parser raises, or the parsed record carries a non-zero error code), a
   ValueError has reached the caller, there is no calculator object, and no
   propagation was made for that TLE. *)
C19_ConstructorRejectsBadTLE ==
    (calc_pc # "new" /\ FailsToParse(tle)) =>
        /\ calc_pc = "failed"
        /\ ctor_exc = "ValueError"
        /\ satellite = None
        /\ calls = <<>>
        /\ ~ENABLED GetPositionAtTimeCall

(* the constructor has rejected a record that parsed with an error code *)
C19_Witness ==
    /\ calc_pc = "failed"
    /\ ~Twoline2rv(tle).raised
    /\ Twoline2rv(tle).satrec.error # 0
    /\ ctor_exc = "ValueError"

(* C20: get_position_at_time never raises; it returns None when the
   propagator reports a non-zero error code or when an exception occurs in
   the conversion; a returned position record has 'error' equal to 0. *)
C20_GetPositionNeverRaises ==
    \A i \in 1..Len(calls) :
        /\ ~calls[i].out.raised
        /\ calls[i].sgp4.error # 0 => calls[i].out.value = None
        /\ GetPositionBody(calls[i].sgp4, calls[i].dt).raised
              => calls[i].out.value = None
        /\ calls[i].out.value # None => calls[i].out.value.error = 0

(* one call answered with an error code, one whose conversion raised, and
   one that returned a position *)
C20_Witness ==
    /\ Len(calls) = 3
    /\ calls[1].sgp4.error # 0
    /\ calls[1].out.value = None
    /\ calls[2].sgp4.error = 0
    /\ GetPositionBody(calls[2].sgp4, calls[2].dt).raised
    /\ calls[2].out.value = None
    /\ calls[3].out.value # None
    /\ calls[3].out.value.error = 0

-----------------------------------------------------------------------------
(* samples i and k are visible and every sample between them is a failed
   propagation *)
JoinedByFailures(i, k) ==
    /\ i < k
    /\ IsOk(samples[i]) /\ SeenVisible(samples[i])
    /\ IsOk(samples[k]) /\ SeenVisible(samples[k])
    /\ \A j \in (i + 1)..(k - 1) : samples[j].kind = "none"

(* C25: a propagation failure while a pass is open neither closes nor splits
   it: visible samples separated only by failed samples are points of one
   returned record, adjacent in its 'points' list, and no record has a point
   at a failed instant. *)
C25_FailureKeepsPassOpen ==
    /\ (pc = "scan" /\ samples # <<>> /\ Last(samples).kind = "none"
        /\ Len(samples) > 1 /\ IsOk(samples[Len(samples) - 1])
        /\ SeenVisible(samples[Len(samples) - 1]))
       => /\ current_pass # None
          /\ Last(current_pass.points) = PointOf(samples[Len(samples) - 1])
    /\ ReturnedNormally =>
          /\ \A i, k \in DOMAIN samples :
                JoinedByFailures(i, k) =>
                   \E n \in DOMAIN returned :
                      \E j \in DOMAIN returned[n].points :
                         /\ j + 1 \in DOMAIN returned[n].points
                         /\ returned[n].points[j] = PointOf(samples[i])
                         /\ returned[n].points[j + 1] = PointOf(samples[k])
          /\ \A j \in DOMAIN samples :
                samples[j].kind = "none" =>
                   \A n \in DOMAIN returned :
                      \A q \in PointSet(returned[n]) : q.time # samples[j].time

(* a pass with a failed instant in its middle, returned as the only record *)
C25_Witness ==
    /\ ReturnedNormally
    /\ Len(samples) = 4
    /\ JoinedByFailures(1, 3)
    /\ samples[2].kind = "none"
    /\ IsOk(samples[4]) /\ ~SeenVisible(samples[4])
    /\ Len(returned) = 1
    /\ Len(returned[1].points) = 2
    /\ returned[1].duration_minutes = 2 * time_step

(* sample i of the elevation series is a visible run of its own *)
SingleSampleRun(i) ==
    /\ i \in RunStarts
    /\ (i = Len(OkSamples) \/ ~SeenVisible(OkSamples[i + 1]))

(* C26: a visible run of exactly one sample is returned as a record with
   exactly one point, start_time = end_time = max_elevation_time, the time of
   that sample, and duration_minutes = 0. *)
C26_SingleSamplePass ==
    ReturnedNormally =>
        \A i \in DOMAIN OkSamples :
            SingleSampleRun(i) =>
                \E n \in DOMAIN returned :
                    LET r == returned[n] IN
                    /\ r.points = <<PointOf(OkSamples[i])>>
                    /\ r.start_time = OkSamples[i].time
                    /\ r.end_time = r.start_time
                    /\ r.max_elevation_time = r.start_time
                    /\ r.max_elevation = OkSamples[i].elevation
                    /\ r.duration_minutes = 0

(* two single-sample passes: one closed by a drop below the threshold, one
   by the end of the scan after a failed instant *)
C26_Witness ==
    /\ ReturnedNormally
    /\ Len(samples) = 4
    /\ IsOk(samples[1]) /\ SeenVisible(samples[1])
    /\ IsOk(samples[2]) /\ ~SeenVisible(samples[2])
    /\ IsOk(samples[3]) /\ SeenVisible(samples[3])
    /\ samples[4].kind = "none"
    /\ Len(returned) = 2
    /\ returned[1].duration_minutes = 0
    /\ returned[2].duration_minutes = 0
    /\ Len(returned[2].points) = 1

RaisedAtSample == samples # <<>> /\ Last(samples).kind = "raise"

(* C27 as claimed: calculate_passes never raises, and an exception at a
   sample of the scan ends the call with the empty list, whatever passes
   were completed before. *)
C27_NeverRaises ==
    /\ pc # "raised_to_caller"
    /\ RaisedAtSample => (pc = "done" /\ returned = <<>>)

(* C27 as amended: once the scan loop is entered the call does not raise, and
   an exception at a sample of the scan ends the call with the empty list,
   whatever passes were completed before; an exception leaves the call only
   from the computation of end_time before the loop (a horizon that
   overflows datetime), and then nothing was sampled. *)
C27_NoRaiseOnceScanning ==
    /\ pc = "raised_to_caller" =>
          /\ Overflows(start_time + timedelta_hours(hours_ahead))
          /\ samples = <<>>
          /\ returned = <<>>
    /\ pc \in {"scan", "done"} => ~Overflows(start_time + timedelta_hours(hours_ahead))
    /\ RaisedAtSample => (pc = "done" /\ returned = <<>> /\ raised)
    /\ (pc = "done" /\ returned # <<>>) => ~raised

(* the exception came after a pass had been completed *)
C27_Witness ==
    /\ RaisedAtSample
    /\ pc = "done"
    /\ Len(passes) = 1
    /\ current_pass # None
    /\ returned = <<>>

-----------------------------------------------------------------------------
(***************************************************************************)
(* The other functions of the tool, one call at a time.  A specification   *)
(* of this part draws the arguments of the call, and the answers of the    *)
(* services the call talks to, in its initial state; its action is the     *)
(* call.                                                                   *)
(***************************************************************************)

(* what every call leaves alone *)
callFrame == <<call_fn, call_in, scanVars, geoVars, calcVars, stVars>>

Returns(fn, out) ==
    /\ call_pc = "call"
    /\ call_fn = fn
    /\ call_out' = out
    /\ call_pc' = "return"
    /\ UNCHANGED callFrame

CallInit(fn, inputs) ==
    /\ ScanIdle
    /\ GeoIdle
    /\ CalcIdle
    /\ StIdle
    /\ call_pc = "call"
    /\ call_fn = fn
    /\ call_in \in inputs
    /\ call_out = None

-----------------------------------------------------------------------------
(* The command line: --passes with --location and --hours (cli.py) *)

MaxCliHours == 6

DEFAULT_HOURS_AHEAD == 24

(* the parameters of calculate_passes after self, in order, and the defaults
   of those that have one *)
CalculatePassesParams ==
    <<"observer_lat", "observer_lon", "observer_alt", "hours_ahead", "min_elevation">>

CalculatePassesDefaults ==
    [observer_alt  |-> 0,
     hours_ahead   |-> DEFAULT_HOURS_AHEAD,
     min_elevation |-> MIN_ELEVATION_DEGREES]

(* a call with positional arguments only: the i-th argument is bound to the
   i-th parameter, the remaining parameters take their defaults *)
BindPositional(argv) ==
    [p \in {CalculatePassesParams[i] : i \in DOMAIN CalculatePassesParams} |->
        LET i == CHOOSE k \in DOMAIN CalculatePassesParams : CalculatePassesParams[k] = p
        IN  IF i <= Len(argv) THEN argv[i] ELSE CalculatePassesDefaults[p]]

(* _parse_location: the fields of "lat,lon" as numbers; anything but two
   fields raises ValueError *)
ParseLocation(location) ==
    IF Len(location) = 2
    THEN [raised |-> FALSE, lat |-> location[1], lon |-> location[2]]
    ELSE [raised |-> TRUE, exc |-> "ValueError"]

(* the scan a calculate_passes call with these parameters starts at t0 *)
ScanOf(bound, t0) ==
    [bound      |-> bound,
     start_time |-> t0,
     end_time   |-> t0 + timedelta_hours(60 * bound.hours_ahead)]

(* run() with --passes: _parse_location, then _display_passes *)
DisplayPasses(args) ==
    LET loc == ParseLocation(args.location)
    IN  IF loc.raised
        THEN [raised |-> TRUE, exc |-> loc.exc, scan |-> None]
        ELSE [raised |-> FALSE,
              scan   |-> ScanOf(BindPositional(<<loc.lat, loc.lon, args.hours>>),
                                args.t0)]

CliLocations ==
    {<<lat, lon>> : lat \in {0 - 90, 0, 21, 90}, lon \in {0 - 180, 0 - 103, 0, 180}}
    \cup {<<21>>, <<21, 0 - 103, 0>>}

CliArgs == [location : CliLocations, hours : 1..MaxCliHours, t0 : StartTimes]

CliInit == CallInit("_display_passes", CliArgs)

DisplayPassesCall == Returns("_display_passes", DisplayPasses(call_in))

CliNext == DisplayPassesCall

CliSpec == CliInit /\ [][CliNext]_vars

(* C21: the scan the command line starts for --hours H covers H hours
   (end_time = start_time + H hours), with the observer latitude and
   longitude of --location and the observer altitude at its default 0; H is
   bound to hours_ahead and to no other parameter. *)
C21_HoursBoundToHorizon ==
    (call_fn = "_display_passes" /\ call_pc = "return" /\ ~call_out.raised) =>
        LET scan == call_out.scan IN
        /\ scan.bound.hours_ahead = call_in.hours
        /\ scan.end_time = scan.start_time + timedelta_hours(60 * call_in.hours)
        /\ scan.bound.observer_lat = call_in.location[1]
        /\ scan.bound.observer_lon = call_in.location[2]
        /\ scan.bound.observer_alt = 0
        /\ scan.bound.min_elevation = MIN_ELEVATION_DEGREES

-----------------------------------------------------------------------------
(* parse_tle (utils.py, sat_data.py).  A text is a sequence of characters. *)

MaxTextLen == 7

Chars == {"A", " ", "\n"}

IsSpace(c) == c \in {" ", "\n"}

RECURSIVE Texts(_)
Texts(n) ==
    IF n = 0 THEN {<<>>}
    ELSE Texts(n - 1) \cup {Append(t, c) : t \in {x \in Texts(n - 1) : Len(x) = n - 1},
                                            c \in Chars}

(* str.strip(): leading and trailing whitespace removed *)
RECURSIVE LStrip(_)
LStrip(t) == IF t # <<>> /\ IsSpace(t[1]) THEN LStrip(Tail(t)) ELSE t

RECURSIVE RStrip(_)
RStrip(t) ==
    IF t # <<>> /\ IsSpace(t[Len(t)]) THEN RStrip(SubSeq(t, 1, Len(t) - 1)) ELSE t

Strip(t) == RStrip(LStrip(t))

(* str.split('\n'): the pieces between newlines, one piece for a text
   without newline, also for the empty text *)
RECURSIVE Split(_)
Split(t) ==
    IF \A i \in DOMAIN t : t[i] # "\n"
    THEN <<t>>
    ELSE LET i == CHOOSE k \in DOMAIN t :
                     t[k] = "\n" /\ \A j \in 1..(k - 1) : t[j] # "\n"
         IN  <<SubSeq(t, 1, i - 1)>> \o Split(SubSeq(t, i + 1, Len(t)))

(* Faulty variant: the name line is taken for the first element line *)
ParseTleSkipsName(tle_string) ==
    LET lines == Split(Strip(tle_string))
    IN  IF Len(lines) >= 3
        THEN [raised |-> FALSE,
              value  |-> <<Strip(lines[1]), Strip(lines[1]), Strip(lines[2])>>]
        ELSE [raised |-> TRUE, exc |-> "ValueError"]

(* utils.parse_tle *)
ParseTle(tle_string) ==
    LET lines == Split(Strip(tle_string))
    IN  IF Len(lines) >= 3
        THEN [raised |-> FALSE,
              value  |-> <<Strip(lines[1]), Strip(lines[2]), Strip(lines[3])>>]
        ELSE [raised |-> TRUE, exc |-> "ValueError"]

(* sat_data.parse_tle *)
SatDataParseTle(tle_string) ==
    LET lines == Split(Strip(tle_string))
    IN  IF Len(lines) >= 3
        THEN [raised |-> FALSE,
              value  |-> <<Strip(lines[1]), Strip(lines[2]), Strip(lines[3])>>]
        ELSE [raised |-> TRUE, exc |-> "ValueError"]

TleInit ==
    /\ CallInit("utils.parse_tle", Texts(MaxTextLen))
       \/ CallInit("sat_data.parse_tle", Texts(MaxTextLen))

UtilsParseTleCall == Returns("utils.parse_tle", ParseTle(call_in))

SatDataParseTleCall == Returns("sat_data.parse_tle", SatDataParseTle(call_in))

TleNext ==
    \/ UtilsParseTleCall
    \/ SatDataParseTleCall

TleSpec == TleInit /\ [][TleNext]_vars

(* the number of newlines of a text *)
Newlines(t) == Cardinality({i \in DOMAIN t : t[i] = "\n"})

(* t without a newline and without whitespace at either end *)
IsStrippedLine(t) ==
    /\ \A i \in DOMAIN t : t[i] # "\n"
    /\ t # <<>> => (~IsSpace(t[1]) /\ ~IsSpace(t[Len(t)]))

(* C22: for a text that after stripping has at least 3 newline-separated
   lines, parse_tle returns the first three lines, each stripped, as
   (name, line1, line2), whatever follows them; for a text with fewer lines
   it raises ValueError; the copies in utils.py and sat_data.py give the
   same result. *)
C22_ParseTle ==
    call_pc = "return" =>
        LET stripped == Strip(call_in)
            lines    == Split(stripped)
        IN  /\ Len(lines) = Newlines(stripped) + 1
            /\ Len(lines) >= 3 =>
                  /\ ~call_out.raised
                  /\ Len(call_out.value) = 3
                  /\ \A k \in 1..3 :
                        /\ call_out.value[k] = Strip(lines[k])
                        /\ IsStrippedLine(call_out.value[k])
            /\ Len(lines) < 3 =>
                  /\ call_out.raised
                  /\ call_out.exc = "ValueError"
            /\ ParseTle(call_in) = SatDataParseTle(call_in)

(* a text of four lines with blanks around the lines, parsed by the copy of
   sat_data.py *)
C22_Witness ==
    /\ call_pc = "return"
    /\ call_fn = "sat_data.parse_tle"
    /\ Len(Split(Strip(call_in))) = 4
    /\ call_in[1] = " "
    /\ ~call_out.raised
    /\ call_out.value = << <<"A">>, <<>>, <<"A">> >>

-----------------------------------------------------------------------------
(* SatelliteDataRetriever.get_tle_from_celestrak (sat_data.py) *)

(* an int or a str argument, as opposed to None *)
PyInt(n) == [int |-> n]

PyStr(t) == [str |-> t]

(* Python truth value of an optional argument: None, 0 and "" are false *)
Truthy(x) == x # None /\ x # PyInt(0) /\ x # PyStr("")

(* what session.get and raise_for_status can do: a connection error or an
   HTTP error status (both requests.RequestException), any other exception,
   or a response with a text *)
HttpAnswers ==
    {[kind |-> "RequestException"], [kind |-> "HTTPError"], [kind |-> "Exception"]}
    \cup [kind : {"ok"}, text : Texts(MaxTextLen)]

(* the request the call builds, or the ValueError of the else branch *)
CelestrakQuery(satellite_id, satellite_name) ==
    IF Truthy(satellite_id) THEN [raised |-> FALSE, key |-> "CATNR", value |-> satellite_id]
    ELSE IF Truthy(satellite_name)
         THEN [raised |-> FALSE, key |-> "NAME", value |-> satellite_name]
         ELSE [raised |-> TRUE, exc |-> "ValueError"]

(* the try block: a returned value or an exception *)
GetTleBody(satellite_id, satellite_name, answer) ==
    LET query == CelestrakQuery(satellite_id, satellite_name)
    IN  IF query.raised
        THEN [raised |-> TRUE, exc |-> query.exc, sent |-> <<>>]
        ELSE IF answer.kind # "ok"
             THEN [raised |-> TRUE, exc |-> answer.kind, sent |-> <<query>>]
             ELSE LET tle_data == Strip(answer.text)
                  IN  [raised |-> FALSE,
                       value  |-> IF Len(Split(tle_data)) >= 3 THEN PyStr(tle_data) ELSE None,
                       sent   |-> <<query>>]

(* Faulty variant: the lines are counted before the text is stripped *)
GetTleCountsRawLines(satellite_id, satellite_name, answer) ==
    LET body == GetTleBody(satellite_id, satellite_name, answer)
    IN  IF body.raised
        THEN [raised |-> FALSE, value |-> None, sent |-> body.sent]
        ELSE [body EXCEPT !.value = IF Len(Split(answer.text)) >= 3
                                    THEN PyStr(Strip(answer.text)) ELSE None]

(* get_tle_from_celestrak: both except clauses return None *)
GetTleFromCelestrak(satellite_id, satellite_name, answer) ==
    LET body == GetTleBody(satellite_id, satellite_name, answer)
    IN  IF body.raised
        THEN [raised |-> FALSE, value |-> None, sent |-> body.sent]
        ELSE body

CelestrakInputs ==
    [satellite_id   : {None, PyInt(0), PyInt(25544)},
     satellite_name : {None, PyStr(""), PyStr("ISS")},
     answer         : HttpAnswers]

CelestrakInit == CallInit("get_tle_from_celestrak", CelestrakInputs)

GetTleFromCelestrakCall ==
    Returns("get_tle_from_celestrak",
            GetTleFromCelestrak(call_in.satellite_id, call_in.satellite_name,
                                call_in.answer))

CelestrakNext == GetTleFromCelestrakCall

CelestrakSpec == CelestrakInit /\ [][CelestrakNext]_vars

(* the lines of a text as a reader counts them: blank lines at its start
   and end are not lines of it *)
LineCount(t) == Newlines(Strip(t)) + 1

(* C23: get_tle_from_celestrak never raises and returns None or a TLE text
   of at least 3 lines: the stripped response text when the response has at
   least 3 lines; None when it has fewer, when the request fails, or when
   neither satellite_id nor satellite_name is given. *)
C23_CelestrakNoneOrTle ==
    call_pc = "return" =>
        LET given == call_in.satellite_id # None \/ call_in.satellite_name # None
            ok    == call_in.answer.kind = "ok"
        IN  /\ ~call_out.raised
            /\ call_out.value # None =>
                  /\ LineCount(call_out.value.str) >= 3
                  /\ Len(Split(call_out.value.str)) >= 3
            /\ (given /\ Len(call_out.sent) = 1 /\ ok /\ LineCount(call_in.answer.text) >= 3)
               => call_out.value = PyStr(Strip(call_in.answer.text))
            /\ (ok /\ LineCount(call_in.answer.text) < 3) => call_out.value = None
            /\ ~ok => call_out.value = None
            /\ ~given => (call_out.value = None /\ call_out.sent = <<>>)

(* a response of three lines with trailing blank lines, asked for by name *)
C23_Witness ==
    /\ call_pc = "return"
    /\ call_in.satellite_id = None
    /\ call_in.answer.kind = "ok"
    /\ call_in.answer.text = <<"A", "\n", "A", "\n", "A", "\n", "\n">>
    /\ call_out.value = PyStr(<<"A", "\n", "A", "\n", "A">>)
    /\ call_out.sent = <<[raised |-> FALSE, key |-> "NAME", value |-> PyStr("ISS")]>>

-----------------------------------------------------------------------------
(* SatelliteRiskAnalyzer._assess_risk_heuristic (security.py).  A country is
   a text, a sequence of characters. *)

MaxCountryLen == 3

RISK_COUNTRIES ==
    [high   |-> <<<<"R", "U">>, <<"C", "N">>, <<"K", "P">>, <<"I", "R">>>>,
     medium |-> <<<<"P", "K">>, <<"I", "N">>, <<"I", "L">>, <<"B", "R">>>>,
     low    |-> <<<<"U", "S">>, <<"C", "A">>, <<"G", "B">>, <<"F", "R">>, <<"D", "E">>, <<"J", "P">>, <<"A", "U">>, <<"N", "L">>, <<"S", "E">>, <<"N", "O">>>>]

Range(f) == {f[i] : i \in DOMAIN f}

ListedCodes ==
    Range(RISK_COUNTRIES.high) \cup Range(RISK_COUNTRIES.medium)
    \cup Range(RISK_COUNTRIES.low)

(* str.upper(), on the letters the countries of the model are written in *)
UpperChar(c) == IF c = "r" THEN "R" ELSE IF c = "u" THEN "U" ELSE c

Upper(t) == [i \in DOMAIN t |-> UpperChar(t[i])]

(* c in t: c is a substring of t *)
Contains(c, t) ==
    \E i \in 0..(Len(t) - Len(c)) : SubSeq(t, i + 1, i + Len(c)) = c

(* any(c in country_upper for c in codes) *)
AnyIn(codes, country_upper) == \E k \in DOMAIN codes : Contains(codes[k], country_upper)

AssessRiskHeuristic(country) ==
    LET country_upper == Upper(country)
    IN  IF AnyIn(RISK_COUNTRIES.high, country_upper) THEN "high"
        ELSE IF AnyIn(RISK_COUNTRIES.medium, country_upper) THEN "medium"
        ELSE IF AnyIn(RISK_COUNTRIES.low, country_upper) THEN "low"
        ELSE "medium"

CountryChars == {"R", "U", "N", "O", "X", "r", "u"}

RECURSIVE CountryTexts(_)
CountryTexts(n) ==
    IF n = 0 THEN {<<>>}
    ELSE CountryTexts(n - 1)
         \cup {Append(t, c) : t \in {x \in CountryTexts(n - 1) : Len(x) = n - 1},
                              c \in CountryChars}

UNKNOWN == <<"U", "N", "K", "N", "O", "W", "N">>

INTERNATIONAL == <<"I", "N", "T", "E", "R", "N", "A", "T", "I", "O", "N", "A", "L">>

Countries ==
    ListedCodes \cup {UNKNOWN, INTERNATIONAL} \cup CountryTexts(MaxCountryLen)

RiskInit == CallInit("_assess_risk_heuristic", Countries)

AssessRiskHeuristicCall ==
    Returns("_assess_risk_heuristic", AssessRiskHeuristic(call_in))

RiskNext == AssessRiskHeuristicCall

RiskSpec == RiskInit /\ [][RiskNext]_vars

(* C24: the heuristic returns 'high' for a country code of the high-risk
   list, 'low' for a country code of the low-risk list, and 'medium' for
   every country that is not one of the listed country codes, 'XX',
   'UNKNOWN' and 'INTERNATIONAL' among them. *)
C24_CountryRisk ==
    call_pc = "return" =>
        /\ call_in \in Range(RISK_COUNTRIES.high) => call_out = "high"
        /\ call_in \in Range(RISK_COUNTRIES.low) => call_out = "low"
        /\ call_in \notin ListedCodes => call_out = "medium"

-----------------------------------------------------------------------------
(***************************************************************************)
(* Space-Track (sat_data.py): authenticate_spacetrack,                     *)
(* get_satellite_info_spacetrack and search_satellite_by_name called in    *)
(* any order on one SatelliteDataRetriever.  What the service answers to   *)
(* a request is drawn when the request is sent.                            *)
(***************************************************************************)

MaxStCalls == 3

(* os.getenv of a credential: unset, empty or set *)
Credentials == {None, PyStr(""), PyStr("secret")}

(* answers to the login POST and to the test query: an exception of the
   session, or a response with a status code *)
StatusAnswers == {"exception", "200", "401"}

(* answers to a catalog query: RequestException (also from raise_for_status),
   a body that is not JSON, or a JSON body: an empty list, a list of
   entries, or an object *)
QueryAnswers == {"RequestException", "JSONDecodeError", "empty", "list", "object"}

Request(kind, status, flag) == [req |-> kind, status |-> status, authenticated |-> flag]

(* Faulty variant: the flag is set on the login response alone *)
AuthenticateWithoutTestQuery(username, password, flag, login, test) ==
    IF ~Truthy(username) \/ ~Truthy(password)
    THEN [result |-> FALSE, authenticated |-> flag, sent |-> <<>>]
    ELSE IF login = "200"
         THEN [result |-> TRUE, authenticated |-> TRUE,
               sent   |-> <<Request("login", login, flag)>>]
         ELSE [result |-> FALSE, authenticated |-> flag,
               sent   |-> <<Request("login", login, flag)>>]

(* authenticate_spacetrack: its return value, the flag afterwards and the
   requests it sent *)
AuthenticateSpacetrack(username, password, flag, login, test) ==
    IF ~Truthy(username) \/ ~Truthy(password)
    THEN [result |-> FALSE, authenticated |-> flag, sent |-> <<>>]
    ELSE IF login # "200"
         THEN [result |-> FALSE, authenticated |-> flag,
               sent   |-> <<Request("login", login, flag)>>]
         ELSE IF test = "200"
              THEN [result |-> TRUE, authenticated |-> TRUE,
                    sent   |-> <<Request("login", login, flag),
                                 Request("test", test, flag)>>]
              ELSE [result |-> FALSE, authenticated |-> flag,
                    sent   |-> <<Request("login", login, flag),
                                 Request("test", test, flag)>>]

(* `if not self._spacetrack_authenticated: if not self.authenticate_spacetrack()`:
   whether the method goes on to its query *)
EnsureAuthenticated(username, password, flag, login, test) ==
    IF flag
    THEN [proceed |-> TRUE, authenticated |-> flag, sent |-> <<>>]
    ELSE LET auth == AuthenticateSpacetrack(username, password, flag, login, test)
         IN  [proceed |-> auth.result, authenticated |-> auth.authenticated,
              sent |-> auth.sent]

(* the try block of get_satellite_info_spacetrack *)
SatelliteInfoResult ==
    [answer \in QueryAnswers |->
        CASE answer \in {"RequestException", "JSONDecodeError", "empty"} -> "None"
          [] answer = "list"   -> "data[0]"
          [] answer = "object" -> "KeyError"]

(* the try block of search_satellite_by_name *)
SearchResult ==
    [answer \in QueryAnswers |->
        CASE answer \in {"RequestException", "JSONDecodeError", "empty"} -> "[]"
          [] answer \in {"list", "object"} -> "data"]

(* a method that authenticates when needed and then sends one query *)
QueryMethod(fn, refused, result) ==
    \E login \in StatusAnswers, test \in StatusAnswers, answer \in QueryAnswers :
        LET ensured == EnsureAuthenticated(spacetrack_username, spacetrack_password,
                                           spacetrack_authenticated, login, test)
        IN  /\ spacetrack_authenticated' = ensured.authenticated
            /\ IF ensured.proceed
               THEN /\ st_sent' = st_sent \o ensured.sent \o
                                  <<Request(fn, answer, ensured.authenticated)>>
                    /\ st_returned' = Append(st_returned, [fn |-> fn, out |-> result[answer]])
               ELSE /\ st_sent' = st_sent \o ensured.sent
                    /\ st_returned' = Append(st_returned, [fn |-> fn, out |-> refused])

StInit ==
    /\ ScanIdle
    /\ GeoIdle
    /\ CalcIdle
    /\ CallIdle
    /\ st_pc = "ready"
    /\ spacetrack_username \in Credentials
    /\ spacetrack_password \in Credentials
    /\ spacetrack_authenticated = FALSE
    /\ st_sent = <<>>
    /\ st_returned = <<>>

stFrame == <<st_pc, spacetrack_username, spacetrack_password, scanVars, geoVars,
             calcVars, callVars>>

CanCall == st_pc = "ready" /\ Len(st_returned) < MaxStCalls

AuthenticateSpacetrackCall ==
    /\ CanCall
    /\ \E login \in StatusAnswers, test \in StatusAnswers :
          LET auth == AuthenticateSpacetrack(spacetrack_username, spacetrack_password,
                                             spacetrack_authenticated, login, test)
          IN  /\ spacetrack_authenticated' = auth.authenticated
              /\ st_sent' = st_sent \o auth.sent
              /\ st_returned' = Append(st_returned,
                    [fn  |-> "authenticate_spacetrack",
                     out |-> IF auth.result THEN "True" ELSE "False"])
    /\ UNCHANGED stFrame

GetSatelliteInfoSpacetrackCall ==
    /\ CanCall
    /\ QueryMethod("get_satellite_info_spacetrack", "None", SatelliteInfoResult)
    /\ UNCHANGED stFrame

SearchSatelliteByNameCall ==
    /\ CanCall
    /\ QueryMethod("search_satellite_by_name", "[]", SearchResult)
    /\ UNCHANGED stFrame

StNext ==
    \/ AuthenticateSpacetrackCall
    \/ GetSatelliteInfoSpacetrackCall
    \/ SearchSatelliteByNameCall

StSpec == StInit /\ [][StNext]_vars

IsQuery(r) == r.req \in {"get_satellite_info_spacetrack", "search_satellite_by_name"}

(* a login answered with 200, immediately followed by a test query answered
   with 200, is among the requests sent *)
LoginConfirmed ==
    \E i \in DOMAIN st_sent :
        /\ st_sent[i].req = "login" /\ st_sent[i].status = "200"
        /\ i + 1 \in DOMAIN st_sent
        /\ st_sent[i + 1].req = "test" /\ st_sent[i + 1].status = "200"

(* C28: a catalog data query is sent only while _spacetrack_authenticated
   is True; the flag is True exactly from the first login answered with 200
   and followed by a test query answered with 200 (so it is never reset);
   when a credential is missing authenticate_spacetrack returns False and no
   request is sent. *)
C28_QueriesOnlyWhenAuthenticated ==
    /\ \A i \in DOMAIN st_sent : IsQuery(st_sent[i]) => st_sent[i].authenticated
    /\ spacetrack_authenticated <=> LoginConfirmed
    /\ \A i, j \in DOMAIN st_sent :
          (i < j /\ st_sent[i].authenticated) => st_sent[j].authenticated
    /\ (~Truthy(spacetrack_username) \/ ~Truthy(spacetrack_password)) =>
          /\ st_sent = <<>>
          /\ ~spacetrack_authenticated
          /\ \A k \in DOMAIN st_returned :
                st_returned[k].fn = "authenticate_spacetrack" => st_returned[k].out = "False"

(* a refused login, then a query method that logs in and queries, then a
   failed login that leaves the flag set *)
C28_Witness ==
    /\ spacetrack_authenticated
    /\ Len(st_returned) = 3
    /\ st_returned[1] = [fn |-> "authenticate_spacetrack", out |-> "False"]
    /\ st_returned[2] = [fn |-> "search_satellite_by_name", out |-> "data"]
    /\ st_returned[3] = [fn |-> "authenticate_spacetrack", out |-> "False"]
    /\ Len(st_sent) = 5
    /\ st_sent[1] = Request("login", "401", FALSE)
    /\ st_sent[4] = Request("search_satellite_by_name", "list", TRUE)
    /\ st_sent[5] = Request("login", "exception", TRUE)

-----------------------------------------------------------------------------
(* SatelliteDataManager.get_satellite_data (data_sources.py) *)

(* what Celestrak can answer: a failed request, a text of fewer than 3
   lines, a TLE whose fields do not parse, or a TLE, of which the model keeps
   the NORAD id extract_norad_from_tle reads (0 when it cannot) *)
CelestrakAnswers ==
    {[kind |-> "RequestException"], [kind |-> "short"], [kind |-> "ValueError"],
     [kind |-> "tle", norad_id |-> 0], [kind |-> "tle", norad_id |-> 25544]}

(* N2YO: a failed request, JSON without 'info', JSON with 'info' *)
N2yoAnswers == {"Exception", "no info", "info"}

(* SatNOGS: a failed request, an empty list, a list of entries *)
SatnogsAnswers == {"Exception", "empty", "entry"}

Query(source, key, value) == [source |-> source, key |-> key, value |-> value]

(* _get_celestrak_data: the data returned (None for none) and the request *)
GetCelestrakData(satellite_id, satellite_name, answer) ==
    LET sent == IF Truthy(satellite_id) THEN <<Query("Celestrak", "CATNR", satellite_id)>>
                ELSE IF Truthy(satellite_name)
                     THEN <<Query("Celestrak", "NAME", satellite_name)>>
                     ELSE <<>>
    IN  [sent |-> sent,
         data |-> IF sent # <<>> /\ answer.kind = "tle"
                  THEN [tle |-> "tle_text", norad_id |-> answer.norad_id]
                  ELSE None]

(* _get_n2yo_data *)
GetN2yoData(satellite_id, answer) ==
    IF ~Truthy(satellite_id)
    THEN [sent |-> <<>>, data |-> None]
    ELSE [sent |-> <<Query("N2YO", "id", satellite_id)>>,
          data |-> IF answer = "info" THEN [basic_info |-> "info"] ELSE None]

(* _get_satnogs_data *)
GetSatnogsData(satellite_id, answer) ==
    IF ~Truthy(satellite_id)
    THEN [sent |-> <<>>, data |-> None]
    ELSE [sent |-> <<Query("SatNOGS", "norad_cat_id", satellite_id)>>,
          data |-> IF answer = "entry" THEN [basic_info |-> "data[0]"] ELSE None]

(* Faulty variant: the id of the Celestrak TLE is not taken over *)
RecoveredIdNever(satellite_id, tle_data) == satellite_id

(* `if not satellite_id and tle_data.get('norad_id')`: the id the later
   sources are asked with *)
RecoveredId(satellite_id, tle_data) ==
    IF tle_data # None /\ ~Truthy(satellite_id) /\ Truthy(PyInt(tle_data.norad_id))
    THEN PyInt(tle_data.norad_id)
    ELSE satellite_id

(* the sources in the order of get_satellite_data: the name appended to
   'sources_used' and the key written to 'raw_data' *)
Sources ==
    <<[name |-> "Celestrak", key |-> "celestrak"],
      [name |-> "N2YO",      key |-> "n2yo"],
      [name |-> "SatNOGS",   key |-> "satnogs"]>>

GetSatelliteData(satellite_id, satellite_name, answers) ==
    LET celestrak == GetCelestrakData(satellite_id, satellite_name, answers.celestrak)
        id        == RecoveredId(satellite_id, celestrak.data)
        n2yo      == GetN2yoData(id, answers.n2yo)
        satnogs   == GetSatnogsData(id, answers.satnogs)
        got       == <<celestrak.data, n2yo.data, satnogs.data>>
        Used(src) == \E k \in DOMAIN Sources : Sources[k] = src /\ got[k] # None
    IN  [sources_used |-> [k \in DOMAIN SelectSeq(Sources, Used) |->
                              SelectSeq(Sources, Used)[k].name],
         raw_data     |-> [key \in {Sources[k].key : k \in {j \in DOMAIN Sources : got[j] # None}} |->
                              got[CHOOSE k \in DOMAIN Sources : Sources[k].key = key]],
         tle          |-> IF celestrak.data # None THEN PyStr(celestrak.data.tle) ELSE None,
         queries      |-> celestrak.sent \o n2yo.sent \o satnogs.sent]

DataInputs ==
    [satellite_id   : {None, PyInt(0), PyInt(43013)},
     satellite_name : {None, PyStr("ISS")},
     answers        : [celestrak : CelestrakAnswers, n2yo : N2yoAnswers,
                       satnogs : SatnogsAnswers]]

DataInit == CallInit("get_satellite_data", DataInputs)

GetSatelliteDataCall ==
    Returns("get_satellite_data",
            GetSatelliteData(call_in.satellite_id, call_in.satellite_name, call_in.answers))

DataNext == GetSatelliteDataCall

DataSpec == DataInit /\ [][DataNext]_vars

(* position of a source, given by the name used in 'sources_used' *)
SourceRank(name) == CHOOSE k \in DOMAIN Sources : Sources[k].name = name

QueriesTo(name) == SelectSeq(call_out.queries, LAMBDA q : q.source = name)

(* the id known when the later sources are reached: the one given, or the
   one of the TLE Celestrak returned for the name *)
KnownId ==
    IF Truthy(call_in.satellite_id) THEN call_in.satellite_id
    ELSE IF /\ Truthy(call_in.satellite_name)
            /\ call_in.answers.celestrak.kind = "tle"
            /\ call_in.answers.celestrak.norad_id # 0
         THEN PyInt(call_in.answers.celestrak.norad_id)
         ELSE None

(* source k was queried and answered with data *)
ReturnedData(k) ==
    /\ QueriesTo(Sources[k].name) # <<>>
    /\ CASE k = 1 -> call_in.answers.celestrak.kind = "tle"
         [] k = 2 -> call_in.answers.n2yo = "info"
         [] k = 3 -> call_in.answers.satnogs = "entry"

(* order of the queries, independence from earlier failures, the id used,
   and the contents of 'sources_used' *)
SourcesQueriedAndUsed ==
    LET queries == call_out.queries
        used    == call_out.sources_used
    IN  /\ \A i, j \in DOMAIN queries :
              i < j => SourceRank(queries[i].source) < SourceRank(queries[j].source)
        /\ QueriesTo("Celestrak") # <<>>
              <=> (Truthy(call_in.satellite_id) \/ Truthy(call_in.satellite_name))
        /\ \A name \in {"N2YO", "SatNOGS"} :
              IF KnownId = None
              THEN QueriesTo(name) = <<>>
              ELSE /\ Len(QueriesTo(name)) = 1
                   /\ QueriesTo(name)[1].value = KnownId
        /\ \A k \in DOMAIN Sources :
              ReturnedData(k) <=> \E i \in DOMAIN used : used[i] = Sources[k].name
        /\ \A i, j \in DOMAIN used :
              i < j => SourceRank(used[i]) < SourceRank(used[j])

(* C29 as claimed: the sources are queried in the order Celestrak, N2YO,
   SatNOGS, a source without data does not keep the later ones from being
   queried, N2YO and SatNOGS are asked with the id given or recovered from
   the Celestrak TLE and not at all when no id is known; 'sources_used'
   lists exactly the sources that returned data, in that order and once
   each, and equals the set of keys of 'raw_data'. *)
C29_SourcesUsedEqualsRawDataKeys ==
    call_pc = "return" =>
        /\ SourcesQueriedAndUsed
        /\ Range(call_out.sources_used) = DOMAIN call_out.raw_data

(* C29 as amended: the same, with 'sources_used' and the keys of 'raw_data'
   naming the same sources, the keys in lower case ('celestrak', 'n2yo',
   'satnogs' for 'Celestrak', 'N2YO', 'SatNOGS'). *)
C29_SourcesUsedMatchRawDataKeys ==
    call_pc = "return" =>
        /\ SourcesQueriedAndUsed
        /\ {Sources[SourceRank(name)].key : name \in Range(call_out.sources_used)}
              = DOMAIN call_out.raw_data
        /\ Cardinality(DOMAIN call_out.raw_data) = Len(call_out.sources_used)

(* only a name is given, Celestrak returns a TLE, N2YO fails and SatNOGS is
   still asked, with the id of the TLE, and answers *)
C29_Witness ==
    /\ call_pc = "return"
    /\ call_in.satellite_id = None
    /\ call_in.answers.n2yo = "Exception"
    /\ call_out.sources_used = <<"Celestrak", "SatNOGS">>
    /\ DOMAIN call_out.raw_data = {"celestrak", "satnogs"}
    /\ call_out.queries = <<Query("Celestrak", "NAME", PyStr("ISS")),
                            Query("N2YO", "id", PyInt(25544)),
                            Query("SatNOGS", "norad_cat_id", PyInt(25544))>>

-----------------------------------------------------------------------------
(* SatelliteDataManager._remove_duplicate_satellites and search_satellites
   (data_sources.py).  A search result is a record with its 'source', its
   'norad_id' (None when it has none) and its 'name', a text. *)

MaxResults == 3

SourceNames == {"SatNOGS", "Celestrak", "N2YO", ""}

NoradIds == {None, PyInt(25544), PyInt(43013)}

SatNames == {<<"B">>, <<"a">>}

Satellites == [source : SourceNames, norad_id : NoradIds, name : SatNames]

(* the code point of a character of a name *)
Ord(c) == CASE c = "B" -> 66 [] c = "a" -> 97 [] c = "b" -> 98

(* str.lower() *)
LowerChar(c) == IF c = "B" THEN "b" ELSE c

Lower(t) == [i \in DOMAIN t |-> LowerChar(t[i])]

(* a <= b for two texts, as Python compares str *)
RECURSIVE TextLeq(_, _)
TextLeq(a, b) ==
    IF a = <<>> THEN TRUE
    ELSE IF b = <<>> THEN FALSE
    ELSE IF a[1] # b[1] THEN Ord(a[1]) < Ord(b[1])
    ELSE TextLeq(Tail(a), Tail(b))

(* source_priority.get(sat.get('source', ''), 3) *)
SourcePriority(source) ==
    CASE source = "SatNOGS"   -> 0
      [] source = "Celestrak" -> 1
      [] source = "N2YO"      -> 2
      [] OTHER                -> 3

sort_key(sat) == <<SourcePriority(sat.source), Lower(sat.name)>>

(* k1 <= k2 for two sort keys, as Python compares tuples *)
KeyLeq(k1, k2) ==
    IF k1[1] # k2[1] THEN k1[1] < k2[1] ELSE TextLeq(k1[2], k2[2])

(* list.sort(key=sort_key): stable, equal keys keep their order *)
RECURSIVE InsertSorted(_, _)
InsertSorted(sorted, sat) ==
    IF sorted = <<>> THEN <<sat>>
    ELSE IF KeyLeq(sort_key(Last(sorted)), sort_key(sat))
         THEN Append(sorted, sat)
         ELSE Append(InsertSorted(SubSeq(sorted, 1, Len(sorted) - 1), sat), Last(sorted))

RECURSIVE SortByKey(_)
SortByKey(list) ==
    IF list = <<>> THEN <<>>
    ELSE InsertSorted(SortByKey(SubSeq(list, 1, Len(list) - 1)), Last(list))

(* Faulty variant: a later entry replaces the one kept for its id *)
RECURSIVE UniqueKeepsLast(_)
UniqueKeepsLast(results) ==
    IF results = <<>> THEN <<>>
    ELSE LET sat == results[1]
         IN  IF Truthy(sat.norad_id)
                /\ \A j \in 2..Len(results) : results[j].norad_id # sat.norad_id
             THEN <<sat>> \o UniqueKeepsLast(Tail(results))
             ELSE UniqueKeepsLast(Tail(results))

(* the loop over results: unique_results after the first n entries *)
RECURSIVE UniqueUpTo(_, _)
UniqueUpTo(results, n) ==
    IF n = 0 THEN <<>>
    ELSE LET unique_results == UniqueUpTo(results, n - 1)
             sat      == results[n]
             seen_ids       == {unique_results[k].norad_id : k \in DOMAIN unique_results}
         IN  IF Truthy(sat.norad_id) /\ sat.norad_id \notin seen_ids
             THEN Append(unique_results, sat)
             ELSE unique_results

Unique(results) == UniqueUpTo(results, Len(results))

RemoveDuplicateSatellites(results) == SortByKey(Unique(results))

(* search_satellites: SatNOGS, then Celestrak, then N2YO when a key of
   one's own is configured *)
SearchSatellites(found) ==
    RemoveDuplicateSatellites(
        found.satnogs \o found.celestrak \o (IF found.n2yo_key THEN found.n2yo ELSE <<>>))

RECURSIVE ListsOf(_, _)
ListsOf(S, n) ==
    IF n = 0 THEN {<<>>}
    ELSE ListsOf(S, n - 1)
         \cup {Append(l, x) : l \in {y \in ListsOf(S, n - 1) : Len(y) = n - 1}, x \in S}

From(source) == {sat \in Satellites : sat.source = source /\ Truthy(sat.norad_id)}

(* what the three searches found, at most one satellite each *)
Found ==
    [satnogs   : ListsOf(From("SatNOGS"), 1),
     celestrak : ListsOf(From("Celestrak"), 1),
     n2yo      : ListsOf(From("N2YO"), 1),
     n2yo_key  : BOOLEAN]

DedupInit ==
    \/ CallInit("_remove_duplicate_satellites", ListsOf(Satellites, MaxResults))
    \/ CallInit("search_satellites", Found)

RemoveDuplicateSatellitesCall ==
    Returns("_remove_duplicate_satellites", RemoveDuplicateSatellites(call_in))

SearchSatellitesCall == Returns("search_satellites", SearchSatellites(call_in))

DedupNext ==
    \/ RemoveDuplicateSatellitesCall
    \/ SearchSatellitesCall

DedupSpec == DedupInit /\ [][DedupNext]_vars

(* the list handed to _remove_duplicate_satellites *)
DedupInput ==
    IF call_fn = "search_satellites"
    THEN call_in.satnogs \o call_in.celestrak
         \o (IF call_in.n2yo_key THEN call_in.n2yo ELSE <<>>)
    ELSE call_in

(* entry i of the input is the first one with its NORAD id *)
FirstOfItsId(i) ==
    /\ DedupInput[i].norad_id # None
    /\ \A j \in 1..(i - 1) : DedupInput[j].norad_id # DedupInput[i].norad_id

(* C30: in the list _remove_duplicate_satellites returns every NORAD id
   occurs at most once; the entry kept for an id is its first occurrence in
   the input (in search_satellites the SatNOGS entry); entries without id
   are dropped and nothing is added; the list is ordered by source priority
   SatNOGS < Celestrak < N2YO < other, then by lower-cased name. *)
C30_FirstOccurrenceKeptAndOrdered ==
    call_pc = "return" =>
        /\ \A a, b \in DOMAIN call_out :
              a # b => call_out[a].norad_id # call_out[b].norad_id
        /\ \A a \in DOMAIN call_out :
              \E i \in DOMAIN DedupInput : FirstOfItsId(i) /\ DedupInput[i] = call_out[a]
        /\ \A i \in DOMAIN DedupInput :
              FirstOfItsId(i) => \E a \in DOMAIN call_out : call_out[a] = DedupInput[i]
        /\ Len(call_out) = Cardinality({i \in DOMAIN DedupInput : FirstOfItsId(i)})
        /\ \A a, b \in DOMAIN call_out :
              a < b =>
                 \/ SourcePriority(call_out[a].source) < SourcePriority(call_out[b].source)
                 \/ /\ SourcePriority(call_out[a].source) = SourcePriority(call_out[b].source)
                    /\ TextLeq(Lower(call_out[a].name), Lower(call_out[b].name))
        /\ call_fn = "search_satellites" =>
              \A a \in DOMAIN call_out :
                 (\E i \in DOMAIN call_in.satnogs :
                     call_in.satnogs[i].norad_id = call_out[a].norad_id)
                 => call_out[a].source = "SatNOGS"

(* three entries: the first occurrence 'a' of an id is kept and the later
   SatNOGS entry with that id dropped, and of the two kept, both of N2YO,
   'a' comes before 'B' *)
C30_Witness ==
    /\ call_pc = "return"
    /\ call_fn = "_remove_duplicate_satellites"
    /\ call_in = <<[source |-> "N2YO", norad_id |-> PyInt(43013), name |-> <<"B">>],
                   [source |-> "N2YO", norad_id |-> PyInt(25544), name |-> <<"a">>],
                   [source |-> "SatNOGS", norad_id |-> PyInt(25544), name |-> <<"B">>]>>
    /\ call_out = <<call_in[2], call_in[1]>>

=============================================================================
